---- MODULE Spec2Model ----
(***************************************************************************)
(* FabioBot skills: the OAuth client-credentials token cache and the       *)
(* authenticated request wrappers of the email-manager, fabric-api,        *)
(* powerbi-report-builder and workspace-manager modules.                   *)
(*                                                                         *)
(* Every skill call is an async function: it runs synchronously up to its  *)
(* next await of a network round trip, so one action is one such segment.  *)
(* Calls of the same or of different modules interleave at the awaits.     *)
(***************************************************************************)
EXTENDS Integers, Sequences, FiniteSets, TLC

VARIABLES env, client, store, clock, tokenCache, issued, issuer, granted, call, last, news

vars == <<env, client, store, clock, tokenCache, issued, issuer, granted, call, last, news>>

----------------------------------------------------------------------------
(* Bounds of the model *)

MaxTicks == 2
MaxTokens == 2
NumCalls == 2
MaxFeedItems == 3

----------------------------------------------------------------------------
(* Program constants *)

SafetyMarginMs == 60000
MsPerSecond == 1000
DefaultMaxItems == 10
MaxItemsCap == 25

TickMs == SafetyMarginMs \div 2

Calls == 1..NumCalls

Modules == {"email", "fabric", "builder", "wsmgr"}

----------------------------------------------------------------------------
(* Environment (process.env), fixed for the life of the process *)

AllSet == [tenantId |-> TRUE, clientId |-> TRUE, clientSecret |-> TRUE, workspaceId |-> TRUE]

Envs ==
  { AllSet,
    [AllSet EXCEPT !.clientSecret = FALSE],
    [AllSet EXCEPT !.workspaceId = FALSE] }

HasCredentials(e) == e.tenantId /\ e.clientId /\ e.clientSecret

----------------------------------------------------------------------------
(* JSON texts and values *)

JsNull == [type |-> "null", id |-> 0]

Doc1 == "{\"id\":1,\"value\":[]}"
Doc2 == "{\"id\":2,\"value\":[]}"
NotJson == "not found"

Bodies == {"", Doc1, Doc2, NotJson}

\* JSON.parse: ok = FALSE stands for the SyntaxError it throws
JSONParse(text) ==
  CASE text = Doc1 -> [ok |-> TRUE, value |-> [type |-> "object", id |-> 1]]
    [] text = Doc2 -> [ok |-> TRUE, value |-> [type |-> "object", id |-> 2]]
    [] OTHER -> [ok |-> FALSE, value |-> JsNull]

----------------------------------------------------------------------------
(* Results of a call: a returned value or a thrown error *)

NoResult ==
  [kind |-> "none", cls |-> "", prefix |-> "", status |-> 0,
   hasText |-> FALSE, text |-> "", tok |-> 0, json |-> JsNull]

ReturnToken(t) == [NoResult EXCEPT !.kind = "return", !.tok = t]

ReturnJson(v) == [NoResult EXCEPT !.kind = "return", !.json = v]

ReturnStatusJson(s, v) == [NoResult EXCEPT !.kind = "return", !.status = s, !.json = v]

\* new Error(`${prefix}: ${status} - ${text}`)
ThrowStatusText(p, s, t) ==
  [NoResult EXCEPT !.kind = "throw", !.cls = "Error", !.prefix = p,
                   !.status = s, !.hasText = TRUE, !.text = t]

\* new Error(`${prefix}: ${status}`)
ThrowStatus(p, s) ==
  [NoResult EXCEPT !.kind = "throw", !.cls = "Error", !.prefix = p, !.status = s]

\* an error without HTTP status: TypeError, SyntaxError, a rejected fetch, a message-only Error
ThrowPlain(c, p) == [NoResult EXCEPT !.kind = "throw", !.cls = c, !.prefix = p]

----------------------------------------------------------------------------
(* The operations of the four modules *)

TokenOps == {"getGraphToken", "fabric.getAccessToken", "builder.getAccessToken", "wsmgr.getAccessToken"}

RequestOps == {"graphRequest", "fabric_api_call", "fabricApiRequest", "apiRequest"}

HandlerOps == {"read_email", "listSemanticModels", "get_report_pages"}

Ops == TokenOps \cup RequestOps \cup HandlerOps

ModuleOf(op) ==
  CASE op \in {"getGraphToken", "graphRequest", "read_email"} -> "email"
    [] op \in {"fabric.getAccessToken", "fabric_api_call"} -> "fabric"
    [] op \in {"builder.getAccessToken", "fabricApiRequest", "listSemanticModels"} -> "builder"
    [] OTHER -> "wsmgr"

Methods == {"GET", "POST", "PUT", "PATCH", "DELETE"}

BodyMethods == {"POST", "PUT", "PATCH"}

\* String.prototype.toUpperCase on the method names used here
ToUpperCase(m) == IF m = "post" THEN "POST" ELSE m

\* the arguments each operation can be invoked with
Invocations ==
  [op : TokenOps \cup HandlerOps, method : {"GET"}, hasBody : {FALSE}]
    \cup [op : {"graphRequest", "fabricApiRequest"}, method : Methods, hasBody : BOOLEAN]
    \cup [op : {"fabric_api_call"}, method : Methods \cup {"post"}, hasBody : BOOLEAN]
    \cup [op : {"apiRequest"}, method : Methods, hasBody : {FALSE}]

----------------------------------------------------------------------------
(* Token cache *)

EmptyCache == [token |-> 0, expiresAt |-> 0]

\* the comparison turned round
IsFreshInverted(cache, now) == cache.token # 0 /\ cache.expiresAt < now + SafetyMarginMs

\* tokenCache.token && tokenCache.expiresAt > now + 60000
IsFresh(cache, now) == cache.token # 0 /\ cache.expiresAt > now + SafetyMarginMs

\* expires_in taken for milliseconds
NewCacheNoScale(now, access_token, expires_in) ==
  [token |-> access_token, expiresAt |-> now + expires_in]

\* a grace period of the margin's length added to the stored expiry
NewCachePadded(now, access_token, expires_in) ==
  [token |-> access_token, expiresAt |-> now + expires_in * MsPerSecond + SafetyMarginMs]

\* the record written after a successful exchange
NewCache(now, access_token, expires_in) ==
  [token |-> access_token, expiresAt |-> now + expires_in * MsPerSecond]

\* only the report builder validates the credentials before the exchange
ChecksCredentials(m) == m = "builder"

MissingCredentials == ThrowPlain("Error", "Missing Azure AD credentials")

\* the errors thrown on a non-2xx reply of the token endpoint
GraphTokenError(status, text) == ThrowStatusText("Graph token error", status, text)

AzureAdTokenError(status, text) == ThrowStatusText("Azure AD token error", status, text)

FabricTokenError(status, text) == ThrowStatus("Token error", status)

WorkspaceTokenError(status, text) == ThrowStatus("Token error", status)

TokenError(m, status, text) ==
  CASE m = "email" -> GraphTokenError(status, text)
    [] m = "builder" -> AzureAdTokenError(status, text)
    [] m = "fabric" -> FabricTokenError(status, text)
    [] OTHER -> WorkspaceTokenError(status, text)

\* a rejected fetch (DNS, connection refused, ...) or a fetch that refuses its arguments
FetchFailed == ThrowPlain("TypeError", "fetch failed")

----------------------------------------------------------------------------
(* Authenticated request wrappers *)

IsOk(status) == status >= 200 /\ status <= 299

\* text ? JSON.parse(text) : null
ParseOrNull(text) ==
  IF text = "" THEN [ok |-> TRUE, value |-> JsNull] ELSE JSONParse(text)

SyntaxError == ThrowPlain("SyntaxError", "JSON.parse")

\* JSON.parse without the test for an empty body
graphRequestNoEmptyTest(status, text) ==
  IF ~IsOk(status) THEN ThrowStatusText("Graph API error", status, text)
  ELSE IF JSONParse(text).ok THEN ReturnJson(JSONParse(text).value)
  ELSE SyntaxError

graphRequest(status, text) ==
  IF ~IsOk(status) THEN ThrowStatusText("Graph API error", status, text)
  ELSE IF ParseOrNull(text).ok THEN ReturnJson(ParseOrNull(text).value)
  ELSE SyntaxError

fabricApiRequest(status, text) ==
  IF ~IsOk(status) THEN ThrowStatusText("Fabric API error", status, text)
  ELSE IF ParseOrNull(text).ok THEN ReturnJson(ParseOrNull(text).value)
  ELSE SyntaxError

apiRequest(status, text) ==
  IF ~IsOk(status) THEN ThrowStatusText("API error", status, text)
  ELSE IF ParseOrNull(text).ok THEN ReturnJson(ParseOrNull(text).value)
  ELSE SyntaxError

\* no status check: the reply is parsed whatever its status
fabric_api_call(status, text) ==
  IF ParseOrNull(text).ok THEN ReturnStatusJson(status, ParseOrNull(text).value)
  ELSE SyntaxError

\* response.json() and the projection data.value
get_report_pages(status, text) ==
  IF ~IsOk(status) THEN ThrowStatus("API error", status)
  ELSE IF ~JSONParse(text).ok THEN SyntaxError
  ELSE ReturnJson([type |-> "pages", id |-> JSONParse(text).value.id])

\* the wrapper that an operation sends its target-API request through
WrapperOf(op) ==
  CASE op = "read_email" -> "graphRequest"
    [] op = "listSemanticModels" -> "fabricApiRequest"
    [] OTHER -> op

WrapperResult(op, status, text) ==
  CASE WrapperOf(op) = "graphRequest" -> graphRequest(status, text)
    [] WrapperOf(op) = "fabricApiRequest" -> fabricApiRequest(status, text)
    [] WrapperOf(op) = "apiRequest" -> apiRequest(status, text)
    [] WrapperOf(op) = "fabric_api_call" -> fabric_api_call(status, text)
    [] OTHER -> get_report_pages(status, text)

\* whether options.body is set on the outgoing request
GraphRequestBody(method, hasBody) == hasBody

FabricApiRequestBody(method, hasBody) == hasBody

FabricApiCallBody(method, hasBody) == hasBody /\ ToUpperCase(method) \in BodyMethods

AttachesBody(op, method, hasBody) ==
  CASE WrapperOf(op) = "graphRequest" -> GraphRequestBody(method, hasBody)
    [] WrapperOf(op) = "fabricApiRequest" -> FabricApiRequestBody(method, hasBody)
    [] WrapperOf(op) = "fabric_api_call" -> FabricApiCallBody(method, hasBody)
    [] OTHER -> FALSE

\* the method put on the outgoing request
RequestMethod(op, method) ==
  IF op = "fabric_api_call" THEN ToUpperCase(method) ELSE method

\* fetch() refuses a GET request that is given a body, before sending anything
FetchRejects(method, body) == body /\ method = "GET"

----------------------------------------------------------------------------
(* Replies of the identity provider and of the target APIs *)

ExpiresIn == {60, 120}

\* the instants at which the identity provider may have issued a token that
\* was requested at sent and received at received
IssueTimes(sent, received) == {k * TickMs : k \in (sent \div TickMs)..(received \div TickMs)}

GraphScope == "https://graph.microsoft.com/.default"
PowerBiScope == "https://analysis.windows.net/powerbi/api/.default"

\* the scope a module's getToken asks for
Scope(m) == IF m = "email" THEN GraphScope ELSE PowerBiScope

GraphApi == "https://graph.microsoft.com/v1.0"
FabricApi == "https://api.fabric.microsoft.com/v1"
PowerBiApi == "https://api.powerbi.com/v1.0/myorg"

\* the base URL an operation sends its target-API request to
Endpoint(op) ==
  CASE ModuleOf(op) = "email" -> GraphApi
    [] op = "get_report_pages" -> PowerBiApi
    [] OTHER -> FabricApi

TokenErrorReplies == {[status |-> 401, text |-> "invalid_client"], [status |-> 500, text |-> ""]}

ApiReplies ==
  [status : {200}, text : Bodies]
    \cup {[status |-> 204, text |-> ""]}
    \cup [status : {404}, text : {"", Doc2, NotJson}]

----------------------------------------------------------------------------
(* The frame of one call: its arguments, locals and position *)

Idle ==
  [op |-> "none", pc |-> "idle", stage |-> "main", method |-> "GET", hasBody |-> FALSE,
   now |-> 0, token |-> 0, gt |-> "none", found |-> "none", expires_in |-> 0,
   tokReqs |-> 0, apiReqs |-> 0, sentMethod |-> "", sentBody |-> FALSE, bearer |-> 0,
   reply |-> [status |-> 0, text |-> ""], msg |-> JsNull, result |-> NoResult]

\* what the freshness test of getToken is looking at: a token inside the
\* margin, a token exactly at the margin, or no usable token
Found(cache, now) ==
  IF cache.token = 0 THEN "miss"
  ELSE IF cache.expiresAt > now + SafetyMarginMs THEN "fresh"
  ELSE IF cache.expiresAt = now + SafetyMarginMs THEN "boundary"
  ELSE "miss"

\* getToken up to its first await: const now = Date.now(); the freshness test;
\* the credential check; the token-exchange request
GetTokenEnter(f, cache, now, e) ==
  LET g == [f EXCEPT !.now = now, !.found = Found(cache, now)]
  IN  IF IsFresh(cache, now)
        THEN [g EXCEPT !.pc = "haveToken", !.token = cache.token, !.gt = "cached"]
      ELSE IF ChecksCredentials(ModuleOf(f.op)) /\ ~HasCredentials(e)
        THEN [g EXCEPT !.pc = "reqDone", !.gt = "threw", !.result = MissingCredentials]
      ELSE [g EXCEPT !.pc = "tokenWait", !.gt = "pending", !.tokReqs = @ + 1]

\* the Authorization header built without the token that getToken returned
SendApiNoToken(f) ==
  LET body == AttachesBody(f.op, f.method, f.hasBody)
      meth == RequestMethod(f.op, f.method)
  IN  IF FetchRejects(meth, body)
        THEN [f EXCEPT !.pc = "reqDone", !.result = FetchFailed]
        ELSE [f EXCEPT !.pc = "apiWait", !.apiReqs = @ + 1,
                       !.sentMethod = meth, !.sentBody = body, !.bearer = 0]

\* the wrapper from the token to the await of the target-API request
SendApi(f) ==
  LET body == AttachesBody(f.op, f.method, f.hasBody)
      meth == RequestMethod(f.op, f.method)
  IN  IF FetchRejects(meth, body)
        THEN [f EXCEPT !.pc = "reqDone", !.result = FetchFailed]
        ELSE [f EXCEPT !.pc = "apiWait", !.apiReqs = @ + 1,
                       !.sentMethod = meth, !.sentBody = body, !.bearer = f.token]

\* getToken has returned: its locals are gone, the caller holds the token
LeaveGetToken(f) == [f EXCEPT !.now = 0, !.found = "none", !.expires_in = 0]

Finish(f, r) == [f EXCEPT !.pc = "done", !.result = r]

\* JSON.stringify(formatted) of read_email
Formatted(msg) == [type |-> "message", id |-> msg.id]

\* the mark-as-read request awaited without the catch
read_email_uncaught(f) ==
  IF f.result.kind = "throw" THEN Finish(f, f.result)
  ELSE Finish(f, ReturnJson(Formatted(f.msg)))

\* read_email after the mark-as-read request has settled: .catch(() => {}) and the return
read_email_marked(f) == Finish(f, ReturnJson(Formatted(f.msg)))

\* runs a call on to its next await or to its end
RECURSIVE Settle(_, _, _, _)
Settle(f, cache, now, e) ==
  CASE f.pc = "haveToken" ->
         IF f.op \in TokenOps THEN Finish(f, ReturnToken(f.token))
         ELSE Settle(SendApi(LeaveGetToken(f)), cache, now, e)
    [] f.pc = "reqDone" /\ f.op = "read_email" /\ f.stage = "main" ->
         IF f.result.kind = "throw" THEN Finish(f, f.result)
         ELSE IF f.result.json = JsNull THEN Finish(f, ThrowPlain("TypeError", "msg.id"))
         ELSE Settle(GetTokenEnter(
                       [f EXCEPT !.stage = "patch", !.msg = f.result.json,
                                 !.method = "PATCH", !.hasBody = TRUE,
                                 !.tokReqs = 0, !.apiReqs = 0, !.bearer = 0,
                                 !.result = NoResult],
                       cache, now, e),
                     cache, now, e)
    [] f.pc = "reqDone" /\ f.op = "read_email" /\ f.stage = "patch" ->
         read_email_marked(f)
    [] f.pc = "reqDone" /\ f.op = "listSemanticModels" ->
         IF f.result.kind = "throw" THEN Finish(f, f.result)
         ELSE IF f.result.json = JsNull THEN Finish(f, ThrowPlain("TypeError", "result.value"))
         ELSE Finish(f, ReturnJson([type |-> "models", id |-> f.result.json.id]))
    [] f.pc = "reqDone" -> Finish(f, f.result)
    [] OTHER -> f

\* an operation from its invocation to its first await
Begin(inv, cache, now, e) ==
  LET f == [Idle EXCEPT !.op = inv.op, !.method = inv.method, !.hasBody = inv.hasBody]
  IN  IF inv.op = "listSemanticModels" /\ ~e.workspaceId
        THEN Finish(f, ThrowPlain("Error", "POWERBI_WORKSPACE_ID not configured"))
        ELSE Settle(GetTokenEnter(f, cache, now, e), cache, now, e)

----------------------------------------------------------------------------
(* The news tracker: get_powerbi_updates and its helpers *)

Min(a, b) == IF a <= b THEN a ELSE b

Max(a, b) == IF a >= b THEN a ELSE b

\* the topic argument as given; "" stands for an absent topic
\* NotAString stands for a topic that is a number
NotAString == "<number>"

TopicInputs == {"", "all", "PowerBI", "fabric", "api-changes", "dax", "visuals", "news", NotAString}

\* (topic || "all").toLowerCase()
SelectedTopic(topic) ==
  CASE topic = "" -> "all"
    [] topic = "PowerBI" -> "powerbi"
    [] OTHER -> topic

\* the max_items argument as given; 0 stands for 0 and for an absent argument
MaxItemsInputs == {-1, 0, 1, 2, 30}

\* Math.min(max_items || 10, 25)
MaxItemsOf(max_items) ==
  Min(IF max_items = 0 THEN DefaultMaxItems ELSE max_items, MaxItemsCap)

PowerBiBlog == [kind |-> "feed", label |-> "Power BI Blog"]
FabricBlog == [kind |-> "feed", label |-> "Fabric Blog"]
FabricRestApi == [kind |-> "page", label |-> "Fabric REST API Documentation"]
DaxReference == [kind |-> "page", label |-> "DAX Reference"]
LearnSearch == [kind |-> "search", label |-> "Microsoft Learn"]

\* the sources get_powerbi_updates fetches for a topic, in the order of its if-statements
Plan(selectedTopic) ==
  CASE selectedTopic = "all" -> <<PowerBiBlog, FabricBlog>>
    [] selectedTopic = "powerbi" -> <<PowerBiBlog>>
    [] selectedTopic = "fabric" -> <<FabricBlog>>
    [] selectedTopic = "api-changes" -> <<FabricRestApi>>
    [] selectedTopic = "dax" -> <<DaxReference>>
    [] selectedTopic = "visuals" -> <<LearnSearch>>
    [] OTHER -> << >>

\* the dates of the entries of a feed or of a search reply; 0 stands for a missing date
Dates == {0, 1, 2}

Entries == UNION {[1..n -> Dates] : n \in 0..MaxFeedItems}

\* the loop of fetchRssFeed: entries are taken while items.length < maxItems
fetchRssFeed(entries, maxItems) ==
  [i \in 1..Min(Len(entries), Max(maxItems, 0)) |-> [date |-> entries[i]]]

\* results.items.push(...items.map(item => ({...item, source})))
Tagged(items, label) == [i \in 1..Len(items) |-> [source |-> label, date |-> items[i].date]]

RECURSIVE InsertByDate(_, _)
InsertByDate(x, s) ==
  IF s = << >> THEN <<x>>
  ELSE IF Head(s).date >= x.date THEN <<Head(s)>> \o InsertByDate(x, Tail(s))
  ELSE <<x>> \o s

\* results.items.sort((a, b) => new Date(b.date || 0) - new Date(a.date || 0)): newest first, stable
RECURSIVE SortByDate(_)
SortByDate(s) ==
  IF s = << >> THEN << >>
  ELSE InsertByDate(s[Len(s)], SortByDate(SubSeq(s, 1, Len(s) - 1)))

\* Array.prototype.slice(0, n): a negative n counts from the end
Slice(s, n) ==
  IF n >= 0 THEN SubSeq(s, 1, Min(n, Len(s)))
  ELSE SubSeq(s, 1, Max(Len(s) + n, 0))

NoError == [message |-> "", status |-> 0]

FeedError(status) == [message |-> "Failed to fetch RSS feed", status |-> status]
PageError(status) == [message |-> "Failed to fetch page", status |-> status]
FetchError == [message |-> "fetch failed", status |-> 0]

\* statuses of a reply that is not ok
NotOkStatuses == {404, 500}

\* no call of get_powerbi_updates yet
NoUpdates ==
  [pc |-> "idle", topic |-> "", max_items |-> 0, maxItems |-> 0, step |-> 0, fetches |-> 0,
   items |-> << >>, hasTotal |-> FALSE, total |-> 0, error |-> NoError, threw |-> FALSE,
   raised |-> FALSE]

\* the try block from its start, or from the resumption after an await, to the
\* next await or to the end: sort, slice, total and the return
UpdatesAdvance(u) ==
  IF u.step < Len(Plan(SelectedTopic(u.topic)))
    THEN [u EXCEPT !.pc = "fetchWait", !.step = @ + 1, !.fetches = @ + 1]
    ELSE LET items == Slice(SortByDate(u.items), u.maxItems)
         IN  [u EXCEPT !.pc = "done", !.items = items, !.hasTotal = TRUE, !.total = Len(items)]

\* catch (error) { results.error = error.message } and the return
UpdatesCatch(u, error) == [u EXCEPT !.pc = "done", !.error = error, !.threw = TRUE]

\* the source the call is waiting for
Awaited(u) == Plan(SelectedTopic(u.topic))[u.step]
----------------------------------------------------------------------------
(* Actions *)

NoLast == [c |-> 0, f |-> Idle]

\* the identity provider before its first grant
NoGrant == [token |-> 0, issuedAt |-> 0, expires_in |-> 0]

\* the process after the modules are loaded, its callers bound to modules
\* and the target API answering GET with one of the given replies
InitAmong(clients, stores) ==
  /\ env \in Envs
  /\ client \in clients
  /\ store \in stores
  /\ clock = 0
  /\ tokenCache = [m \in Modules |-> EmptyCache]
  /\ issued = 0
  /\ issuer = [m \in Modules |-> NoGrant]
  /\ granted = << >>
  /\ call = [c \in Calls |-> Idle]
  /\ last = NoLast
  /\ news = NoUpdates

SameModule == {[c \in Calls |-> m] : m \in Modules}

NoStore == [status |-> 0, text |-> ""]

\* every caller of one run uses the same skill module
Init == InitAmong(SameModule, {NoStore})

\* stores the frame a step has produced; a finished call leaves its frame in last
Commit(c, f) ==
  IF f.pc = "done"
    THEN call' = [call EXCEPT ![c] = Idle] /\ last' = [c |-> c, f |-> f]
    ELSE call' = [call EXCEPT ![c] = f] /\ last' = NoLast

\* caller c invokes an operation that looks at the cache of the email module,
\* whatever its own module
InvokeAmongSharedCache(c, invs) ==
  /\ call[c].pc = "idle"
  /\ \E inv \in invs :
       /\ ModuleOf(inv.op) = client[c]
       /\ Commit(c, Begin(inv, tokenCache["email"], clock, env))
  /\ UNCHANGED <<news, env, client, store, clock, tokenCache, issued, issuer, granted>>

\* caller c invokes one of the given operations of its module
InvokeAmong(c, invs) ==
  /\ call[c].pc = "idle"
  /\ \E inv \in invs :
       /\ ModuleOf(inv.op) = client[c]
       /\ Commit(c, Begin(inv, tokenCache[ModuleOf(inv.op)], clock, env))
  /\ UNCHANGED <<news, env, client, store, clock, tokenCache, issued, issuer, granted>>

\* one skill call at a time, made by the first caller: a wrapper, a handler or getToken
Invoke ==
  /\ \A d \in Calls : call[d].pc = "idle"
  /\ InvokeAmong(1, Invocations)

\* a caller that finds an exchange in flight waits for it instead of sending its own
InvokeTokenShared(c) ==
  /\ call[c].pc = "idle"
  /\ \E inv \in {i \in Invocations : i.op \in TokenOps} :
       /\ ModuleOf(inv.op) = client[c]
       /\ LET f == Begin(inv, tokenCache[ModuleOf(inv.op)], clock, env)
          IN  IF f.pc = "tokenWait" /\ \E d \in Calls : call[d].pc = "tokenWait"
                THEN Commit(c, [f EXCEPT !.tokReqs = 0])
                ELSE Commit(c, f)
  /\ UNCHANGED <<news, env, client, store, clock, tokenCache, issued, issuer, granted>>

\* getToken entered by a caller while others may be in flight
InvokeToken(c) == InvokeAmong(c, {inv \in Invocations : inv.op \in TokenOps})

\* the two fields assigned one by one, the expiry left for later
TokenResponseOkFieldwise(c) ==
  /\ call[c].pc = "tokenWait"
  /\ HasCredentials(env)
  /\ issued < MaxTokens
  /\ \E expires_in \in ExpiresIn, issuedAt \in IssueTimes(call[c].now, clock) :
       LET f == call[c]
           m == ModuleOf(f.op)
           access_token == issued + 1
           rec == [tokenCache[m] EXCEPT !.token = access_token]
       IN  /\ tokenCache' = [tokenCache EXCEPT ![m] = rec]
           /\ issued' = access_token
           /\ issuer' = [issuer EXCEPT ![m] = [token |-> access_token, issuedAt |-> issuedAt,
                                               expires_in |-> expires_in]]
           /\ granted' = Append(granted, Scope(m))
           /\ Commit(c, Settle([f EXCEPT !.pc = "haveToken", !.token = access_token,
                                         !.gt = "issued", !.expires_in = expires_in],
                               rec, clock, env))
  /\ UNCHANGED <<news, env, client, store, clock>>

\* a record that is still fresh kept in place, the first write winning
TokenResponseOkKeepsFresh(c) ==
  /\ call[c].pc = "tokenWait"
  /\ HasCredentials(env)
  /\ issued < MaxTokens
  /\ \E expires_in \in ExpiresIn, issuedAt \in IssueTimes(call[c].now, clock) :
       LET f == call[c]
           m == ModuleOf(f.op)
           access_token == issued + 1
           rec == IF IsFresh(tokenCache[m], clock) THEN tokenCache[m]
                  ELSE NewCache(f.now, access_token, expires_in)
       IN  /\ tokenCache' = [tokenCache EXCEPT ![m] = rec]
           /\ issued' = access_token
           /\ issuer' = [issuer EXCEPT ![m] = [token |-> access_token, issuedAt |-> issuedAt,
                                               expires_in |-> expires_in]]
           /\ granted' = Append(granted, Scope(m))
           /\ Commit(c, Settle([f EXCEPT !.pc = "haveToken", !.token = access_token,
                                         !.gt = "issued", !.expires_in = expires_in],
                               rec, clock, env))
  /\ UNCHANGED <<news, env, client, store, clock>>

\* the expiry counted from the clock at the arrival of the response
TokenResponseOkArrivalClock(c) ==
  /\ call[c].pc = "tokenWait"
  /\ HasCredentials(env)
  /\ issued < MaxTokens
  /\ \E expires_in \in ExpiresIn, issuedAt \in IssueTimes(call[c].now, clock) :
       LET f == call[c]
           m == ModuleOf(f.op)
           access_token == issued + 1
           rec == NewCache(clock, access_token, expires_in)
       IN  /\ tokenCache' = [tokenCache EXCEPT ![m] = rec]
           /\ issued' = access_token
           /\ issuer' = [issuer EXCEPT ![m] = [token |-> access_token, issuedAt |-> issuedAt,
                                               expires_in |-> expires_in]]
           /\ granted' = Append(granted, Scope(m))
           /\ Commit(c, Settle([f EXCEPT !.pc = "haveToken", !.token = access_token,
                                         !.gt = "issued", !.expires_in = expires_in],
                               rec, clock, env))
  /\ UNCHANGED <<news, env, client, store, clock>>

\* the token returned read from the cache before the new record is assigned
TokenResponseOkReturnsOld(c) ==
  /\ call[c].pc = "tokenWait"
  /\ HasCredentials(env)
  /\ issued < MaxTokens
  /\ \E expires_in \in ExpiresIn, issuedAt \in IssueTimes(call[c].now, clock) :
       LET f == call[c]
           m == ModuleOf(f.op)
           access_token == issued + 1
           rec == NewCache(f.now, access_token, expires_in)
       IN  /\ tokenCache' = [tokenCache EXCEPT ![m] = rec]
           /\ issued' = access_token
           /\ issuer' = [issuer EXCEPT ![m] = [token |-> access_token, issuedAt |-> issuedAt,
                                               expires_in |-> expires_in]]
           /\ granted' = Append(granted, Scope(m))
           /\ Commit(c, Settle([f EXCEPT !.pc = "haveToken", !.token = tokenCache[m].token,
                                         !.gt = "issued", !.expires_in = expires_in],
                               rec, clock, env))
  /\ UNCHANGED <<news, env, client, store, clock>>

TokenResponseOk(c) ==
  /\ call[c].pc = "tokenWait"
  /\ HasCredentials(env)
  /\ issued < MaxTokens
  /\ \E expires_in \in ExpiresIn, issuedAt \in IssueTimes(call[c].now, clock) :
       LET f == call[c]
           m == ModuleOf(f.op)
           access_token == issued + 1
           rec == NewCache(f.now, access_token, expires_in)
       IN  /\ tokenCache' = [tokenCache EXCEPT ![m] = rec]
           /\ issued' = access_token
           /\ issuer' = [issuer EXCEPT ![m] = [token |-> access_token, issuedAt |-> issuedAt,
                                               expires_in |-> expires_in]]
           /\ granted' = Append(granted, Scope(m))
           /\ Commit(c, Settle([f EXCEPT !.pc = "haveToken", !.token = access_token,
                                         !.gt = "issued", !.expires_in = expires_in],
                               rec, clock, env))
  /\ UNCHANGED <<news, env, client, store, clock>>

\* the cache reset when the exchange is refused
TokenResponseErrorResets(c) ==
  /\ call[c].pc = "tokenWait"
  /\ \E r \in TokenErrorReplies :
       LET f == call[c]
           m == ModuleOf(f.op)
       IN  /\ tokenCache' = [tokenCache EXCEPT ![m] = EmptyCache]
           /\ Commit(c, Settle([f EXCEPT !.pc = "reqDone", !.gt = "threw", !.reply = r,
                                          !.result = TokenError(m, r.status, r.text)],
                                EmptyCache, clock, env))
  /\ UNCHANGED <<news, env, client, store, clock, issued, issuer, granted>>

TokenResponseError(c) ==
  /\ call[c].pc = "tokenWait"
  /\ \E r \in TokenErrorReplies :
       LET f == call[c]
           m == ModuleOf(f.op)
       IN  Commit(c, Settle([f EXCEPT !.pc = "reqDone", !.gt = "threw", !.reply = r,
                                      !.result = TokenError(m, r.status, r.text)],
                            tokenCache[m], clock, env))
  /\ UNCHANGED <<news, env, client, store, clock, tokenCache, issued, issuer, granted>>

TokenNetworkFailure(c) ==
  /\ call[c].pc = "tokenWait"
  /\ LET f == call[c]
     IN  Commit(c, Settle([f EXCEPT !.pc = "reqDone", !.gt = "threw", !.result = FetchFailed],
                          tokenCache[ModuleOf(f.op)], clock, env))
  /\ UNCHANGED <<news, env, client, store, clock, tokenCache, issued, issuer, granted>>

\* the cached token dropped when the target API refuses the request
ApiResponseInvalidates(c) ==
  /\ call[c].pc = "apiWait"
  /\ \E r \in ApiReplies :
       LET f == call[c]
           m == ModuleOf(f.op)
           cache == IF IsOk(r.status) THEN tokenCache[m] ELSE EmptyCache
       IN  /\ tokenCache' = [tokenCache EXCEPT ![m] = cache]
           /\ Commit(c, Settle([f EXCEPT !.pc = "reqDone", !.reply = r,
                                          !.result = WrapperResult(f.op, r.status, r.text)],
                                cache, clock, env))
  /\ UNCHANGED <<news, env, client, store, clock, issued, issuer, granted>>

ApiResponse(c) ==
  /\ call[c].pc = "apiWait"
  /\ \E r \in ApiReplies :
       LET f == call[c]
       IN  Commit(c, Settle([f EXCEPT !.pc = "reqDone", !.reply = r,
                                      !.result = WrapperResult(f.op, r.status, r.text)],
                            tokenCache[ModuleOf(f.op)], clock, env))
  /\ UNCHANGED <<news, env, client, store, clock, tokenCache, issued, issuer, granted>>

\* the request sent once more after a network failure
ApiNetworkFailureRetries(c) ==
  /\ call[c].pc = "apiWait"
  /\ LET f == call[c]
     IN  IF f.apiReqs < 2
           THEN Commit(c, [f EXCEPT !.apiReqs = @ + 1])
           ELSE Commit(c, Settle([f EXCEPT !.pc = "reqDone", !.result = FetchFailed],
                                 tokenCache[ModuleOf(f.op)], clock, env))
  /\ UNCHANGED <<news, env, client, store, clock, tokenCache, issued, issuer, granted>>

ApiNetworkFailure(c) ==
  /\ call[c].pc = "apiWait"
  /\ LET f == call[c]
     IN  Commit(c, Settle([f EXCEPT !.pc = "reqDone", !.result = FetchFailed],
                          tokenCache[ModuleOf(f.op)], clock, env))
  /\ UNCHANGED <<news, env, client, store, clock, tokenCache, issued, issuer, granted>>

Tick ==
  /\ clock < MaxTicks * TickMs
  /\ clock' = clock + TickMs
  /\ last' = NoLast
  /\ UNCHANGED <<news, env, client, store, tokenCache, issued, issuer, granted, call>>

\* skill calls one after the other
Next ==
  \/ Invoke
  \/ \E c \in Calls : TokenResponseOk(c)
  \/ \E c \in Calls : TokenResponseError(c)
  \/ \E c \in Calls : TokenNetworkFailure(c)
  \/ \E c \in Calls : ApiResponse(c)
  \/ \E c \in Calls : ApiNetworkFailure(c)
  \/ Tick

Spec == Init /\ [][Next]_vars

\* concurrent callers of getToken on one cache
NextTokens ==
  \/ \E c \in Calls : InvokeToken(c)
  \/ \E c \in Calls : TokenResponseOk(c)
  \/ \E c \in Calls : TokenResponseError(c)
  \/ \E c \in Calls : TokenNetworkFailure(c)
  \/ Tick

\* getToken does not read the workspace id
InitTokens == Init /\ env.workspaceId

SpecTokens == InitTokens /\ [][NextTokens]_vars

\* request("GET", path) through a wrapper, one call at a time
InvokeRead ==
  /\ \A d \in Calls : call[d].pc = "idle"
  /\ InvokeAmong(1, {inv \in Invocations :
                       inv.op \in RequestOps /\ inv.method = "GET" /\ ~inv.hasBody})

\* the reply of a call that had to refresh the token dropped
ApiReadDropsAfterRefresh(c) ==
  /\ call[c].pc = "apiWait"
  /\ LET f == call[c]
         r == IF f.gt = "issued" THEN [status |-> 204, text |-> ""] ELSE store
     IN  Commit(c, Settle([f EXCEPT !.pc = "reqDone", !.reply = r,
                                    !.result = WrapperResult(f.op, r.status, r.text)],
                          tokenCache[ModuleOf(f.op)], clock, env))
  /\ UNCHANGED <<news, env, client, store, clock, tokenCache, issued, issuer, granted>>

\* the target API answers a GET of the path with the data it stores
ApiRead(c) ==
  /\ call[c].pc = "apiWait"
  /\ LET f == call[c]
     IN  Commit(c, Settle([f EXCEPT !.pc = "reqDone", !.reply = store,
                                    !.result = WrapperResult(f.op, store.status, store.text)],
                          tokenCache[ModuleOf(f.op)], clock, env))
  /\ UNCHANGED <<news, env, client, store, clock, tokenCache, issued, issuer, granted>>

\* reads of one path of a target API whose data does not change
NextReads ==
  \/ InvokeRead
  \/ \E c \in Calls : TokenResponseOk(c)
  \/ \E c \in Calls : TokenResponseError(c)
  \/ \E c \in Calls : TokenNetworkFailure(c)
  \/ \E c \in Calls : ApiRead(c)
  \/ \E c \in Calls : ApiNetworkFailure(c)
  \/ Tick

InitReads == InitAmong(SameModule, ApiReplies)

SpecReads == InitReads /\ [][NextReads]_vars

ModuleOrder == <<"email", "fabric", "builder", "wsmgr">>

\* the first caller of a run uses one skill module, the other callers the next one
TwoModules ==
  {[c \in Calls |-> IF c = 1 THEN ModuleOrder[k] ELSE ModuleOrder[(k % Len(ModuleOrder)) + 1]] :
     k \in 1..Len(ModuleOrder)}

\* getToken or request("GET", path) of the caller's module, one call at a time
InvokeSkill(c) ==
  /\ \A d \in Calls : call[d].pc = "idle"
  /\ InvokeAmong(c, {inv \in Invocations :
                       /\ inv.op \in TokenOps \cup RequestOps
                       /\ inv.method = "GET"
                       /\ ~inv.hasBody})

\* the skill modules of one process used in turn
NextModules ==
  \/ \E c \in Calls : InvokeSkill(c)
  \/ \E c \in Calls : TokenResponseOk(c)
  \/ \E c \in Calls : TokenResponseError(c)
  \/ \E c \in Calls : TokenNetworkFailure(c)
  \/ \E c \in Calls : ApiResponse(c)
  \/ \E c \in Calls : ApiNetworkFailure(c)
  \/ Tick

\* neither getToken nor the request wrappers read the workspace id
InitModules == InitAmong(TwoModules, {NoStore}) /\ env.workspaceId

SpecModules == InitModules /\ [][NextModules]_vars

\* get_powerbi_updates from its invocation to its first await, or to its end
UpdatesInvoke ==
  /\ news.pc \in {"idle", "done"}
  /\ \E topic \in TopicInputs, max_items \in MaxItemsInputs :
       LET u == [NoUpdates EXCEPT !.topic = topic, !.max_items = max_items,
                                  !.maxItems = MaxItemsOf(max_items)]
       IN  news' = IF topic = NotAString
                     THEN [u EXCEPT !.pc = "done", !.raised = TRUE]
                     ELSE UpdatesAdvance(u)
  /\ UNCHANGED <<env, client, store, clock, tokenCache, issued, issuer, granted, call, last>>

\* a feed is received: fetchRssFeed returns its items and the call goes on
FeedResponse ==
  /\ news.pc = "fetchWait"
  /\ Awaited(news).kind = "feed"
  /\ \E entries \in Entries :
       news' = UpdatesAdvance([news EXCEPT !.items =
                 @ \o Tagged(fetchRssFeed(entries, news.maxItems), Awaited(news).label)])
  /\ UNCHANGED <<env, client, store, clock, tokenCache, issued, issuer, granted, call, last>>

\* a feed is answered with a status that is not ok: fetchRssFeed throws
FeedNotOk ==
  /\ news.pc = "fetchWait"
  /\ Awaited(news).kind = "feed"
  /\ \E status \in NotOkStatuses : news' = UpdatesCatch(news, FeedError(status))
  /\ UNCHANGED <<env, client, store, clock, tokenCache, issued, issuer, granted, call, last>>

\* a documentation page is received: one item without a date
PageResponse ==
  /\ news.pc = "fetchWait"
  /\ Awaited(news).kind = "page"
  /\ news' = UpdatesAdvance([news EXCEPT !.items =
                @ \o <<[source |-> "Microsoft Learn", date |-> 0]>>])
  /\ UNCHANGED <<env, client, store, clock, tokenCache, issued, issuer, granted, call, last>>

\* a page is answered with a status that is not ok: fetchPageContent throws
PageNotOk ==
  /\ news.pc = "fetchWait"
  /\ Awaited(news).kind = "page"
  /\ \E status \in NotOkStatuses : news' = UpdatesCatch(news, PageError(status))
  /\ UNCHANGED <<env, client, store, clock, tokenCache, issued, issuer, granted, call, last>>

\* the search is answered: one item for each result
SearchResponse ==
  /\ news.pc = "fetchWait"
  /\ Awaited(news).kind = "search"
  /\ \E entries \in Entries :
       news' = UpdatesAdvance([news EXCEPT !.items =
                 @ \o [i \in 1..Len(entries) |->
                         [source |-> "Microsoft Learn", date |-> entries[i]]]])
  /\ UNCHANGED <<env, client, store, clock, tokenCache, issued, issuer, granted, call, last>>

\* the search is answered with a status that is not ok: searchMsLearn
\* returns no results and does not throw
SearchNotOk ==
  /\ news.pc = "fetchWait"
  /\ Awaited(news).kind = "search"
  /\ news' = UpdatesAdvance(news)
  /\ UNCHANGED <<env, client, store, clock, tokenCache, issued, issuer, granted, call, last>>

\* fetch rejects: the helper throws whatever the source
FetchRejected ==
  /\ news.pc = "fetchWait"
  /\ news' = UpdatesCatch(news, FetchError)
  /\ UNCHANGED <<env, client, store, clock, tokenCache, issued, issuer, granted, call, last>>

\* calls of get_powerbi_updates, one after the other
NextNews ==
  \/ UpdatesInvoke
  \/ FeedResponse
  \/ FeedNotOk
  \/ PageResponse
  \/ PageNotOk
  \/ SearchResponse
  \/ SearchNotOk
  \/ FetchRejected

\* the tracker reads neither the environment nor a token cache
InitNews == Init /\ env = AllSet /\ client[1] = "email"

SpecNews == InitNews /\ [][NextNews]_vars

----------------------------------------------------------------------------
(* Properties *)

\* C1: a getToken call entered while the cache holds a non-empty token with
\* expiresAt > now + 60000 returns that token, sends no token-exchange request
\* and leaves the cache as it was.
C1_Freshness ==
  [][\A c \in Calls :
       LET cache == tokenCache[client[c]]
           f == IF last'.c = c THEN last'.f ELSE call'[c]
       IN  (/\ call[c].pc = "idle"
            /\ f.gt # "none"
            /\ cache.token # 0
            /\ cache.expiresAt > clock + SafetyMarginMs)
           => /\ f.gt = "cached"
              /\ f.token = cache.token
              /\ f.tokReqs = 0
              /\ f.pc # "tokenWait"
              /\ f.op \in TokenOps => (f.pc = "done" /\ f.result = ReturnToken(cache.token))
              /\ tokenCache' = tokenCache
              /\ issued' = issued]_vars

\* a getToken call has returned a token that another call had cached before
C1_Witness ==
  /\ last.c # 0
  /\ last.f.op \in TokenOps
  /\ last.f.gt = "cached"
  /\ last.f.result.kind = "return"
  /\ last.f.result.tok # 0
  /\ last.f.now > 0

\* C2 as claimed: with the credentials configured, a getToken call that finds
\* the cache empty or stale sends exactly one token-exchange request and, when
\* it succeeds, returns the new token and caches it so that a getToken call
\* entered right after it returns the same token without an exchange, whatever
\* expires_in was reported.
C2_Original ==
  [][/\ (/\ HasCredentials(env)
         /\ last'.c # 0 /\ last'.f.op \in TokenOps /\ last'.f.gt \in {"issued", "threw"})
          => last'.f.tokReqs = 1
     /\ (last'.c # 0 /\ last'.f.op \in TokenOps /\ last'.f.gt = "issued")
          => /\ last'.f.result = ReturnToken(last'.f.token)
             /\ tokenCache'[ModuleOf(last'.f.op)].token = last'.f.token
     /\ \A d \in Calls :
          LET g == IF last'.c = d THEN last'.f ELSE call'[d]
          IN  (/\ last.c # 0 /\ last.f.op \in TokenOps /\ last.f.gt = "issued"
               /\ call[d].pc = "idle" /\ g.gt # "none")
              => /\ g.gt = "cached"
                 /\ g.token = last.f.token
                 /\ g.tokReqs = 0
                 /\ issued' = issued]_vars

\* C2 amended: with the credentials configured, the exchange request is sent
\* exactly once; a successful call returns the new token and caches it with
\* expiresAt = now + expires_in * 1000; the call entered right after it reuses
\* the token when expires_in * 1000 exceeds 60000 ms plus the time that has
\* passed since the refreshing call sampled now.
C2_Refresh ==
  [][/\ (/\ last'.c # 0 /\ last'.f.gt \in {"issued", "threw"} /\ last'.f.op \in TokenOps
         /\ HasCredentials(env))
          => last'.f.tokReqs = 1
     /\ (last'.c # 0 /\ last'.f.gt = "issued" /\ last'.f.op \in TokenOps)
          => /\ last'.f.result = ReturnToken(last'.f.token)
             /\ last'.f.tokReqs = 1
             /\ tokenCache'[ModuleOf(last'.f.op)] =
                  [token |-> last'.f.token,
                   expiresAt |-> last'.f.now + last'.f.expires_in * 1000]
     /\ (/\ last.c # 0 /\ last.f.gt = "issued" /\ last.f.op \in TokenOps
         /\ last.f.expires_in * 1000 > SafetyMarginMs + (clock - last.f.now))
          => \A d \in Calls :
               LET g == IF last'.c = d THEN last'.f ELSE call'[d]
               IN  (call[d].pc = "idle" /\ g.gt # "none")
                   => /\ g.gt = "cached"
                      /\ g.token = last.f.token
                      /\ g.tokReqs = 0
                      /\ g.result = ReturnToken(last.f.token)
                      /\ issued' = issued]_vars

\* a getToken call found a stale token at a later instant, refreshed it, and its
\* token is fresh for the next caller
C2_Witness ==
  /\ last.c # 0
  /\ last.f.op \in TokenOps
  /\ last.f.gt = "issued"
  /\ last.f.found = "boundary"
  /\ last.f.expires_in * 1000 > SafetyMarginMs + (clock - last.f.now)
  /\ tokenCache[ModuleOf(last.f.op)].token = last.f.token

\* C3: a failed token exchange leaves the cache record (token and expiresAt)
\* as it was just before the failure, under any interleaving of callers; the
\* record changes only in the step in which some caller's exchange succeeds,
\* so a token that another caller has cached stays in place and fresh.
C3_NonDestructive ==
  [][/\ (\E c \in Calls :
           /\ call[c].pc = "tokenWait"
           /\ last'.c = c
           /\ last'.f.gt = "threw")
          => tokenCache' = tokenCache
     /\ tokenCache' # tokenCache
          => \E c \in Calls :
               LET g == IF last'.c = c THEN last'.f ELSE call'[c]
               IN  /\ call[c].pc = "tokenWait"
                   /\ g.gt = "issued"
                   /\ tokenCache' = [tokenCache EXCEPT ![ModuleOf(g.op)] =
                                       [token |-> g.token,
                                        expiresAt |-> call[c].now + g.expires_in * 1000]]]_vars

\* an exchange has failed while the cache holds a token that is still fresh
C3_Witness ==
  /\ last.c # 0
  /\ last.f.gt = "threw"
  /\ last.f.tokReqs = 1
  /\ last.f.reply.status = 401
  /\ tokenCache[ModuleOf(last.f.op)].token # 0
  /\ tokenCache[ModuleOf(last.f.op)].expiresAt > clock + SafetyMarginMs

\* C4: in every request wrapper a non-2xx reply of the target API makes the call
\* throw an error that carries the reply's status and its raw body, the body
\* never being parsed as JSON.
C4_ErrorBodyPassthrough ==
  (/\ last.c # 0
   /\ last.f.op \in RequestOps \cup {"get_report_pages"}
   /\ last.f.gt \in {"cached", "issued"}
   /\ last.f.reply.status # 0
   /\ ~(last.f.reply.status >= 200 /\ last.f.reply.status <= 299))
    => /\ last.f.result.kind = "throw"
       /\ last.f.result.cls = "Error"
       /\ last.f.result.status = last.f.reply.status
       /\ last.f.result.hasText
       /\ last.f.result.text = last.f.reply.text

\* C5: in every module a non-2xx reply of the token endpoint makes getToken
\* throw an error that carries the reply's status and its body text.
C5_TokenErrorCarriesStatusAndText ==
  (/\ last.c # 0
   /\ last.f.gt = "threw"
   /\ last.f.reply.status # 0)
    => /\ last.f.result.kind = "throw"
       /\ last.f.result.status = last.f.reply.status
       /\ last.f.result.hasText
       /\ last.f.result.text = last.f.reply.text

\* C6: on a 2xx reply request returns null when the body is empty and the
\* JSON parse of the body (its value, or its parse error) when it is not.
C6_EmptyBodyTolerance ==
  (/\ last.c # 0
   /\ last.f.op \in {"graphRequest", "fabricApiRequest", "apiRequest"}
   /\ last.f.gt \in {"cached", "issued"}
   /\ last.f.reply.status >= 200 /\ last.f.reply.status <= 299)
    => IF last.f.reply.text = ""
         THEN last.f.result = ReturnJson(JsNull)
       ELSE IF JSONParse(last.f.reply.text).ok
         THEN last.f.result = ReturnJson(JSONParse(last.f.reply.text).value)
       ELSE last.f.result.kind = "throw" /\ last.f.result.cls = "SyntaxError"

\* a PATCH through graphRequest was answered 204 with an empty body
C6_Witness ==
  /\ last.c # 0
  /\ last.f.op = "graphRequest"
  /\ last.f.sentMethod = "PATCH"
  /\ last.f.reply = [status |-> 204, text |-> ""]
  /\ last.f.result = ReturnJson(JsNull)

\* C7: one call of request() sends at most one token-exchange request and at
\* most one target-API request; a failed exchange or a failed target-API reply
\* ends the call with an error, nothing further being sent.
C7_NoRetries ==
  [][\A c \in Calls :
       LET f == call[c]
           g == IF last'.c = c THEN last'.f ELSE call'[c]
           failed == \/ g.gt = "threw"
                     \/ g.result = FetchFailed
                     \/ (g.reply # f.reply /\ ~(g.reply.status >= 200 /\ g.reply.status <= 299))
       IN  /\ g.tokReqs <= 1
           /\ g.apiReqs <= 1
           /\ (f.pc \in {"tokenWait", "apiWait"} /\ g # f
               /\ f.op \in {"graphRequest", "fabricApiRequest", "apiRequest"} /\ failed)
                => /\ g.pc = "done"
                   /\ g.result.kind = "throw"
                   /\ g.tokReqs = f.tokReqs
                   /\ g.apiReqs = f.apiReqs]_vars

\* a wrapper call that sent both requests has ended on a failed target-API reply
C7_Witness ==
  /\ last.c # 0
  /\ last.f.op = "fabricApiRequest"
  /\ last.f.tokReqs = 1
  /\ last.f.apiReqs = 1
  /\ last.f.reply.status = 404
  /\ last.f.result.kind = "throw"

\* C8: in every module a missing credential, or a missing workspace id in an
\* operation that needs one, fails the operation before any request is sent.
C8_FailFastConfig ==
  \A c \in Calls :
    /\ ~HasCredentials(env) => (call[c].tokReqs = 0 /\ call[c].apiReqs = 0)
    /\ (~env.workspaceId /\ call[c].op \in {"listSemanticModels", "get_report_pages"})
         => (call[c].tokReqs = 0 /\ call[c].apiReqs = 0)

\* C9: read_email sends the mark-as-read PATCH only after its GET has returned
\* a message, returns the message formatted from the GET whatever becomes of
\* the PATCH, and passes on a failure of the GET without sending the PATCH.
C9_MarkAsReadBestEffort ==
  [][\A c \in Calls :
       LET f == call[c]
           g == IF last'.c = c THEN last'.f ELSE call'[c]
       IN  (f.op = "read_email" /\ g # f) =>
             /\ (f.stage = "main" /\ g.stage = "patch")
                  => /\ f.pc = "apiWait"
                     /\ g.reply.status >= 200 /\ g.reply.status <= 299
                     /\ JSONParse(g.reply.text).ok
                     /\ g.msg = JSONParse(g.reply.text).value
                     /\ g.apiReqs + g.tokReqs >= 1
             /\ (f.stage = "main" /\ g.pc = "done")
                  => /\ g.stage = "main"
                     /\ g.result.kind = "throw"
             /\ (f.stage = "main" /\ f.pc = "apiWait"
                 /\ ~(g.reply.status >= 200 /\ g.reply.status <= 299))
                  => /\ g.pc = "done"
                     /\ g.result.kind = "throw"
             /\ f.stage = "patch"
                  => /\ g.stage = "patch"
                     /\ g.msg = f.msg
                     /\ g.pc = "done" => g.result = ReturnJson([type |-> "message", id |-> f.msg.id])
             /\ g.sentMethod = "PATCH" => g.stage = "patch"]_vars

\* read_email has returned its message although the PATCH was answered 404
C9_Witness ==
  /\ last.c # 0
  /\ last.f.op = "read_email"
  /\ last.f.stage = "patch"
  /\ last.f.sentMethod = "PATCH"
  /\ last.f.reply.status = 404
  /\ last.f.result.kind = "return"
  /\ last.f.result.json = [type |-> "message", id |-> last.f.msg.id]

C11_AtomicPair ==
  \A m \in Modules :
    \/ tokenCache[m] = [token |-> 0, expiresAt |-> 0]
    \/ /\ tokenCache[m].token # 0
       /\ tokenCache[m].token = issuer[m].token
       /\ \E k \in 0..(issuer[m].issuedAt \div TickMs) :
            tokenCache[m].expiresAt = k * TickMs + issuer[m].expires_in * 1000

\* a caller that entered on an empty cache has overwritten the record that
\* another caller's exchange had stored while it was waiting
C11_Witness ==
  /\ last.c # 0
  /\ last.f.gt = "issued"
  /\ last.f.found = "miss"
  /\ last.f.now = 0
  /\ last.f.token = 2
  /\ tokenCache[ModuleOf(last.f.op)] =
       [token |-> 2, expiresAt |-> last.f.expires_in * 1000]

\* C12 as claimed: once a getToken call has completed a successful exchange
\* the cache holds the record of that call, the last one written, and its
\* token was issued by the identity provider and has not yet expired there
\* at the moment it is written.
C12_Original ==
  (last.c # 0 /\ last.f.gt = "issued")
    => LET m == ModuleOf(last.f.op)
       IN  /\ tokenCache[m].token = last.f.token
           /\ tokenCache[m].token \in 1..issued
           /\ clock < issuer[m].issuedAt + issuer[m].expires_in * 1000

\* C12 amended: the cache of a module always holds the record of the
\* successful exchange of that module that completed last, whatever the
\* number of concurrent refreshes; its token was issued by the identity
\* provider for the module's scope; the token may have expired there by the
\* time it is written, but the stored expiresAt is then not after the clock,
\* so the record is never fresh for a reader once its token has expired.
C12_LastWriteWins ==
  /\ \A m \in Modules :
       tokenCache[m].token # 0
         => /\ tokenCache[m].token = issuer[m].token
            /\ tokenCache[m].token \in 1..issued
            /\ granted[tokenCache[m].token] = Scope(m)
            /\ clock >= issuer[m].issuedAt + issuer[m].expires_in * 1000
                 => tokenCache[m].expiresAt <= clock
  /\ (last.c # 0 /\ last.f.gt = "issued")
       => /\ tokenCache[ModuleOf(last.f.op)].token = last.f.token
          /\ last.f.token = issued

\* two refreshes have overlapped and both have completed: the caller that
\* entered first was answered last, and the cache holds its record
C12_Witness ==
  /\ \A c \in Calls : call[c].pc = "idle"
  /\ last.c # 0
  /\ last.f.gt = "issued"
  /\ last.f.found = "miss"
  /\ last.f.now = 0
  /\ clock > 0
  /\ issued = 2
  /\ tokenCache[ModuleOf(last.f.op)].token = 2
  /\ tokenCache[ModuleOf(last.f.op)].expiresAt < issuer[ModuleOf(last.f.op)].issuedAt
                                                   + issuer[ModuleOf(last.f.op)].expires_in * 1000

\* C13: a step of a request call that sends the target-API request, receives
\* its reply (2xx or not), parses its body or fails leaves every token cache
\* as it was, and so does a failed token exchange; a cache record changes
\* only in the step in which a token exchange of that module succeeds.
C13_RequestFrame ==
  [][/\ \A c \in Calls :
          LET f == call[c]
              g == IF last'.c = c THEN last'.f ELSE call'[c]
          IN  /\ (f.pc = "idle" /\ g # f) => tokenCache' = tokenCache
              /\ (f.pc = "apiWait" /\ g # f) => tokenCache' = tokenCache
              /\ (f.pc = "tokenWait" /\ g # f /\ g.gt = "threw") => tokenCache' = tokenCache
     /\ \A m \in Modules :
          tokenCache'[m] # tokenCache[m]
            => /\ issued' = issued + 1
               /\ tokenCache'[m].token = issued'
               /\ \E c \in Calls :
                    /\ call[c].pc = "tokenWait"
                    /\ ModuleOf(call[c].op) = m
                    /\ (IF last'.c = c THEN last'.f ELSE call'[c]).gt = "issued"]_vars

\* apiRequest has thrown on a 404 reply of the target API and the token that
\* its own exchange had stored is still in the cache
C13_Witness ==
  /\ last.c # 0
  /\ last.f.op = "apiRequest"
  /\ last.f.gt = "issued"
  /\ last.f.reply.status = 404
  /\ last.f.result.kind = "throw"
  /\ tokenCache["wsmgr"].token = last.f.token
  /\ tokenCache["wsmgr"].token # 0

C15_NoDeduplication ==
  /\ \A c \in Calls :
       /\ call[c].pc = "tokenWait" => (call[c].tokReqs = 1 /\ call[c].found # "fresh")
       /\ call[c].pc # "tokenWait" => call[c].tokReqs = 0
  /\ Cardinality({c \in Calls : call[c].tokReqs = 1})
       = Cardinality({c \in Calls : call[c].pc = "tokenWait"})
  /\ (last.c # 0 /\ last.f.found = "fresh")
       => (last.f.gt = "cached" /\ last.f.tokReqs = 0)
  /\ (last.c # 0 /\ last.f.gt \in {"issued", "threw"} /\ HasCredentials(env))
       => last.f.tokReqs = 1

\* two callers have entered on the empty cache and both wait for their own exchange
C15_Witness ==
  /\ issued = 0
  /\ tokenCache[client[1]] = EmptyCache
  /\ call[1].pc = "tokenWait" /\ call[1].tokReqs = 1
  /\ call[2].pc = "tokenWait" /\ call[2].tokReqs = 1

\* C16: getToken samples now when it is entered and keeps it while it waits;
\* after a successful exchange the stored expiresAt is that now plus
\* expires_in * 1000, whatever the clock shows when the response arrives and
\* with no margin subtracted; the 60000 ms margin enters only the freshness
\* test of a call that reads the cache.
C16_ExpiryFromEntryClock ==
  [][\A c \in Calls :
       LET f == call[c]
           g == IF last'.c = c THEN last'.f ELSE call'[c]
           m == client[c]
       IN  /\ (f.pc = "idle" /\ g.pc = "tokenWait") => g.now = clock
           /\ (f.pc = "tokenWait" /\ g.pc = "tokenWait") => g.now = f.now
           /\ (f.pc = "tokenWait" /\ g.gt = "issued")
                => /\ g.now = f.now
                   /\ tokenCache'[m].token = g.token
                   /\ tokenCache'[m].expiresAt = f.now + g.expires_in * MsPerSecond
           /\ (f.pc = "idle" /\ g # f /\ tokenCache[m].token # 0)
                => (g.gt = "cached" <=> tokenCache[m].expiresAt > clock + SafetyMarginMs)]_vars

\* a response has arrived after the clock had moved on from the instant of
\* entry, and the stored expiry is counted from the instant of entry
C16_Witness ==
  /\ last.c # 0
  /\ last.f.gt = "issued"
  /\ last.f.now < clock
  /\ tokenCache[ModuleOf(last.f.op)].token = last.f.token
  /\ tokenCache[ModuleOf(last.f.op)].expiresAt = last.f.now + last.f.expires_in * MsPerSecond
  /\ tokenCache[ModuleOf(last.f.op)].expiresAt < clock + last.f.expires_in * MsPerSecond

\* C17: the token caches of the four modules are separate: a step of a call
\* of one module, successful or failed, leaves the cache records of the other
\* modules as they were, and the token a call sends as Bearer was granted for
\* the scope of its own module, a Graph token going only to the Graph API and
\* a Power BI token only to the Fabric and Power BI APIs.
C17_CacheIndependence ==
  [][\A c \in Calls :
       LET f == call[c]
           g == IF last'.c = c THEN last'.f ELSE call'[c]
       IN  g # f
             => /\ \A m \in Modules \ {client[c]} : tokenCache'[m] = tokenCache[m]
                /\ g.apiReqs > f.apiReqs
                     => /\ g.bearer \in 1..issued'
                        /\ granted'[g.bearer] = Scope(client[c])
                        /\ granted'[g.bearer] = GraphScope <=> Endpoint(g.op) = GraphApi
                /\ (g.pc = "done" /\ g.result.kind = "return" /\ g.op \in TokenOps)
                     => granted'[g.result.tok] = Scope(client[c])]_vars

\* fabric_api_call has sent the token of the fabric-api cache to the Fabric
\* API while the email cache holds a fresh Graph token of its own
C17_Witness ==
  /\ call[2].op = "fabric_api_call"
  /\ call[2].pc = "apiWait"
  /\ call[2].bearer = tokenCache["fabric"].token
  /\ granted[call[2].bearer] = PowerBiScope
  /\ tokenCache["email"].token # 0
  /\ tokenCache["email"].token # call[2].bearer
  /\ tokenCache["email"].expiresAt > clock + SafetyMarginMs
  /\ granted[tokenCache["email"].token] = GraphScope

\* C18: a request call whose getToken fails (a refusal of the token endpoint,
\* missing credentials or a network failure) ends at once with the error that
\* getToken threw and never sends the target-API request; the target-API
\* request is sent only once getToken has returned, and its Bearer token is
\* the one getToken returned to this call: the cached token it found fresh or
\* the access_token of its own exchange.
C18_TokenBeforeRequest ==
  [][\A c \in Calls :
       LET f == call[c]
           g == IF last'.c = c THEN last'.f ELSE call'[c]
           m == ModuleOf(g.op)
       IN  (g # f /\ g.op \in RequestOps)
             => /\ g.gt = "threw"
                     => /\ g.pc = "done"
                        /\ g.apiReqs = 0
                        /\ g.bearer = 0
                        /\ g.result.kind = "throw"
                        /\ g.result = IF g.reply.status # 0
                                        THEN TokenError(m, g.reply.status, g.reply.text)
                                      ELSE IF f.pc = "tokenWait" THEN FetchFailed
                                      ELSE MissingCredentials
                /\ g.apiReqs > 0 => g.gt \in {"cached", "issued"}
                /\ g.apiReqs > f.apiReqs
                     => /\ g.bearer # 0
                        /\ g.gt = "cached" => (f.pc = "idle" /\ g.bearer = tokenCache[m].token)
                        /\ g.gt = "issued" => (f.pc = "tokenWait" /\ g.bearer = issued'
                                               /\ issued' = issued + 1)]_vars

\* graphRequest has ended with the error of a refused token exchange, no
\* request to the Graph API having been sent
C18_Witness ==
  /\ last.c # 0
  /\ last.f.op = "graphRequest"
  /\ last.f.gt = "threw"
  /\ last.f.reply.status = 401
  /\ last.f.apiReqs = 0
  /\ last.f.result = TokenError("email", 401, "invalid_client")

\* C19: under any interleaving a getToken call that has performed an exchange
\* returns the access_token of its own response, also when another caller has
\* written the cache while it was waiting; a getToken call returns nothing but
\* the token it found fresh in the cache at entry or the access_token of its
\* own successful exchange.
C19_ReturnsOwnToken ==
  (last.c # 0 /\ last.f.op \in TokenOps)
    => LET m == ModuleOf(last.f.op)
       IN  /\ last.f.gt = "issued"
                => /\ last.f.result = ReturnToken(issued)
                   /\ issuer[m].token = issued
                   /\ last.f.tokReqs = 1
           /\ last.f.gt = "cached"
                => /\ last.f.result = ReturnToken(tokenCache[m].token)
                   /\ last.f.found = "fresh"
                   /\ last.f.tokReqs = 0
                   /\ tokenCache[m].token # 0
           /\ last.f.result.kind = "return" => last.f.gt \in {"cached", "issued"}
           /\ last.f.gt \notin {"cached", "issued"} => last.f.result.kind = "throw"

\* a getToken call that entered at the start has returned the token of its own
\* exchange after another caller's exchange had already filled the cache
C19_Witness ==
  /\ last.c # 0
  /\ last.f.op = "getGraphToken"
  /\ last.f.gt = "issued"
  /\ last.f.now = 0
  /\ last.f.found = "miss"
  /\ issued = 2
  /\ last.f.result = ReturnToken(2)

\* C20: the identity provider counting a token's lifetime of expires_in
\* seconds from the instant it issues it, which is not before the getToken
\* call was entered, the stored expiresAt never exceeds the expiry of the
\* cached token at the identity provider; so a token that getToken returns
\* from the cache as fresh is valid there for more than 60000 ms beyond the
\* instant at which it is returned.
C20_ConservativeExpiry ==
  /\ \A m \in Modules :
       tokenCache[m].token # 0
         => /\ issuer[m].token = tokenCache[m].token
            /\ tokenCache[m].expiresAt <= issuer[m].issuedAt + issuer[m].expires_in * 1000
  /\ \A c \in Calls :
       call[c].pc = "tokenWait" => call[c].now <= clock
  /\ (last.c # 0 /\ last.f.gt = "cached")
       => LET m == ModuleOf(last.f.op)
          IN  /\ last.f.token = issuer[m].token
              /\ issuer[m].issuedAt + issuer[m].expires_in * 1000 > clock + SafetyMarginMs

\* getToken has returned from the cache a token that the identity provider
\* issued after the refreshing call had sampled its clock, so that the token
\* lives longer there than the stored expiresAt says
C20_Witness ==
  /\ last.c # 0
  /\ last.f.gt = "cached"
  /\ last.f.result = ReturnToken(tokenCache[ModuleOf(last.f.op)].token)
  /\ issuer[ModuleOf(last.f.op)].token = last.f.token
  /\ tokenCache[ModuleOf(last.f.op)].expiresAt
       < issuer[ModuleOf(last.f.op)].issuedAt + issuer[ModuleOf(last.f.op)].expires_in * 1000

\* C21: get_powerbi_updates does not raise when a feed or page fetch fails:
\* it stops fetching, and returns the error message with the items of the
\* sources fetched before the failure and without total; when no fetch fails
\* it returns at most maxItems = min(max_items or 10, 25) items and total is
\* their number.
C21_UpdatesNeverRaise ==
  news.pc = "done"
    => LET plan == Plan(SelectedTopic(news.topic))
       IN  /\ news.fetches > 0 => ~news.raised
           /\ news.threw
                => /\ news.error.message # ""
                   /\ ~news.hasTotal
                   /\ news.fetches = news.step
                   /\ \A i \in 1..Len(news.items) :
                        \E j \in 1..(news.step - 1) : news.items[i].source = plan[j].label
           /\ (~news.threw /\ ~news.raised)
                => /\ news.fetches = Len(plan)
                   /\ news.error = NoError
                   /\ news.hasTotal
                   /\ news.total = Len(news.items)
                   /\ Len(news.items) <= Min(IF news.max_items = 0 THEN DefaultMaxItems
                                               ELSE news.max_items, MaxItemsCap)

====
